---- MODULE Spec2Model ----
(***************************************************************************)
(* Pathy: the path editor of src/src/app.rs (PathyApp).                    *)
(*                                                                         *)
(* The program is one frame handler, PathyApp::update, called by eframe    *)
(* with the frame's input snapshot (egui::Context), plus save (before      *)
(* shutdown) and new (at launch).  The model keeps                          *)
(*   - the fields of PathyApp,                                             *)
(*   - the part of egui's memory the handler uses (the animation values   *)
(*     keyed by BezPoint id, the primary button's state),                 *)
(*   - the input snapshot in flight to update, and the persisted record.  *)
(*                                                                         *)
(* Coordinates are f32 in the program.  The model computes them in         *)
(* integers: a division rounds down to the grid (where f32 rounds to the  *)
(* nearest representable value).                                           *)
(***************************************************************************)
EXTENDS Integers, Sequences, FiniteSets, TLC

\* ------------------------------------------------------------------ bounds
\* Most points Create and Insert build in one run of the model.
MaxCreated == 3
\* Most drag updates (app.rs:402-413) applied in one run of the model.
MaxMoves == 1
\* Most mode keys pressed within one frame.
MaxKeys == 1

\* ------------------------------------------------------- program constants
\* app.rs:257  let steps = 100;
Steps == 100
\* app.rs:352  BezPoint::new(x, y, x - 10.0, y, x + 10.0, y)
HandleOffset == 10
\* Hit radius of a point, in pixels (bezier module; spec 4.3 "hit radius").
HitRadius == 1

\* Default::default()  (app.rs:70-71): size 140.5, scale 720; the model's
\* field and canvas are smaller.
DefaultSize == 8
DefaultScale == 8
\* Values the two DragValues are set to (Field Size, Field Scale).
SizeValues == {DefaultSize, 2 * DefaultSize}
ScaleValues == {DefaultScale, 2 * DefaultScale}

\* rect.min: where the layout puts the canvas.
RectMin == <<1, 1>>

NoPos == <<>>
\* Pointer positions of the snapshots: two inside the canvas, one on its
\* fringe (outside rect, still hovering the canvas thanks to egui's
\* interaction radius), one far from it (over the top panel).
InsideSpots == {<<1, 1>>, <<6, 5>>}
FringeSpot == <<0, 3>>
FarSpot == <<40, 0>>
HoverSpots == InsideSpots \cup {FringeSpot}

Modes == {"Default", "Create", "Insert", "Delete", "Trim"}
\* app.rs:145-150, in the order of the table.
ModeOrder == <<"Create", "Insert", "Delete", "Trim">>

VARIABLES
    size,         \* PathyApp.size
    scale,        \* PathyApp.scale
    cursor_mode,  \* PathyApp.cursor_mode
    overlay,      \* PathyApp.overlay is Some
    points,       \* PathyApp.points: sequence of BezPoint
    selected,     \* PathyApp.selected: id of the BezPoint whose anchor it references, 0 = None
    detached,     \* the Point selected references when it is no longer in points
    anim,         \* egui's animation values, keyed by BezPoint id
    held,         \* the primary button is down (egui's pointer state)
    input,        \* the snapshot in flight to update, or NoInput
    running,      \* the app is running (between new and the shutdown save)
    storage,      \* the persisted record, or NoRecord
    created,      \* how many points Create and Insert have built (history)
    moved,        \* how many drag updates were applied (history)
    pressed,      \* the point under the pointer when the hold began, 0 = none (history)
    last          \* what the last handler did (history)

vars == <<size, scale, cursor_mode, overlay, points, selected, detached, anim,
          held, input, running, storage, created, moved, pressed, last>>

NoInput == [kind |-> "none"]
NoRecord == [kind |-> "none"]
NoPoint == [x |-> 0, y |-> 0, locked |-> FALSE, live |-> FALSE]
NoAnim == [v |-> 0, to |-> 0, on |-> FALSE]
Quiet == [op |-> "none", edit |-> "none", at |-> 0, cleared |-> FALSE,
          dragged |-> FALSE, released |-> FALSE, returned |-> "none",
          toggled |-> "none", clicked |-> FALSE]

\* Identities of the points.  Between frames the points of the path are named
\* by their position, the point that only `selected` still holds is HeldId; a
\* point built during a frame is FreshId until the frame ends.
HeldId == MaxCreated + 1
FreshId == MaxCreated + 2
Ids == 1 .. FreshId

\* ------------------------------------------------------------ coordinates
\* Point::screen(scale / size, rect.min)  (app.rs:265, 291): origin + p * factor
ToScreen(v, o, sc, sz) == o + ((v * sc) \div sz)

\* app.rs:347-348, 386-387, 406-407: (pos - rect.min) * (size / scale)
ToField(px, o, sc, sz) == ((px - o) * sz) \div sc

\* Pos2::lerp(to, 0.5)  (app.rs:355-356, 389-390)
Lerp(a, b) == (a + b) \div 2

\* app.rs:339-343: the pointer is outside the field rectangle
OutOfBounds(pos, sc) ==
    \/ pos[1] < RectMin[1]
    \/ pos[1] > sc + RectMin[1]
    \/ pos[2] < RectMin[2]
    \/ pos[2] > sc + RectMin[2]

Dist2(ax, ay, bx, by) == (ax - bx) * (ax - bx) + (ay - by) * (ay - by)

\* ------------------------------------------------------------- the path
\* BezPoint::new(x, y, cp1x, cp1y, cp2x, cp2y): anchor and two handles, each a
\* Point; the anchor carries the lock flag the handler sets.
BezPointNew(id, x, y, c1x, c1y, c2x, c2y) ==
    [id |-> id, x |-> x, y |-> y, locked |-> FALSE,
     c1x |-> c1x, c1y |-> c1y, c2x |-> c2x, c2y |-> c2y]

IdsOf(pts) == {pts[i].id : i \in 1 .. Len(pts)}

\* Vec::push  (app.rs:351, 357)
Push(pts, p) == Append(pts, p)

\* Vec::insert(index, p) with the code's 0-based index  (app.rs:391)
InsertAt(pts, index, p) ==
    SubSeq(pts, 1, index) \o <<p>> \o SubSeq(pts, index + 1, Len(pts))

\* Vec::remove(i) with the code's 0-based index  (app.rs:376)
RemoveAt(pts, i) == SubSeq(pts, 1, i) \o SubSeq(pts, i + 2, Len(pts))

\* Vec::truncate(i)  (app.rs:381)
Truncate(pts, i) == IF i >= Len(pts) THEN pts ELSE SubSeq(pts, 1, i)

\* The coordinates of a path, without identities and lock flags.
Coords(pts) ==
    [i \in 1 .. Len(pts) |->
        <<pts[i].x, pts[i].y, pts[i].c1x, pts[i].c1y, pts[i].c2x, pts[i].c2y>>]

\* ------------------------------------------------------------ animation
\* Where a running animation stands after a frame that shows some progress
\* without finishing it.
MidReveal == 50

\* The value of a running animation one frame later.
Advance(v, to) ==
    IF v = to THEN v
    ELSE IF v < MidReveal /\ MidReveal < to THEN MidReveal
    ELSE to

\* ctx.animate_value_with_time(id, target, time)  (app.rs:258-262, 366-370):
\* the first call for an id stores the target and returns it; a later call
\* returns the current value and retargets the animation.
AnimateValue(entry, target) ==
    IF ~entry.on
    THEN [ret |-> target, entry |-> [v |-> target, to |-> target, on |-> TRUE]]
    ELSE LET cur == Advance(entry.v, entry.to)
         IN [ret |-> cur, entry |-> [v |-> cur, to |-> target, on |-> TRUE]]

\* draw_steps of the segment ending at b  (app.rs:258-262)
DrawSteps(an, b) == AnimateValue(an[b.id], Steps).ret

\* The animation values after the curve rendering of a frame: every point
\* that ends a segment had its value read with target `steps`.
AnimAfterDraw(an, pts) ==
    [k \in Ids |->
        IF \E i \in 2 .. Len(pts) : pts[i].id = k
        THEN AnimateValue(an[k], Steps).entry
        ELSE an[k]]

\* ------------------------------------------------------ curve evaluation
\* bezier::interpolate(a, b, i / steps), one coordinate: the cubic over
\* (a.anchor, a.cp2, b.cp1, b.anchor), times steps^3.
Cubic(p0, p1, p2, p3, i) ==
    (Steps - i) * (Steps - i) * (Steps - i) * p0
    + 3 * (Steps - i) * (Steps - i) * i * p1
    + 3 * (Steps - i) * i * i * p2
    + i * i * i * p3

\* interpolate(a, b, i / steps).screen(scale / size, rect.min)  (app.rs:264-265)
SamplePoint(a, b, i, sc, sz) ==
    << RectMin[1] + ((Cubic(a.x, a.c2x, b.c1x, b.x, i) * sc) \div (Steps * Steps * Steps * sz)),
       RectMin[2] + ((Cubic(a.y, a.c2y, b.c1y, b.y, i) * sc) \div (Steps * Steps * Steps * sz)) >>

\* bezier::interpolate_slope(a, b, i / steps) is Some: the horizontal
\* component of the derivative of the cubic is not zero.
SlopeDefined(a, b, i) ==
    3 * (Steps - i) * (Steps - i) * (a.c2x - a.x)
    + 6 * (Steps - i) * i * (b.c1x - a.c2x)
    + 3 * i * i * (b.x - b.c1x) # 0

\* f32::MAX  (app.rs:246)
F32Max == 2000000000
\* app.rs:246-249
NoClosest == [min_dis |-> F32Max, closest |-> NoPos, closest_idx |-> 0, slope |-> FALSE]

\* Variant: a sample as close as the closest so far replaces it.
SampleStep_Last(acc, idx, a, b, i, pos, sc, sz) ==
    LET point == SamplePoint(a, b, i, sc, sz)
        dist == Dist2(point[1], point[2], pos[1], pos[2])
    IN IF dist <= acc.min_dis
       THEN [min_dis |-> dist, closest |-> point, closest_idx |-> idx,
             slope |-> SlopeDefined(a, b, i)]
       ELSE acc

\* app.rs:268-279: the body of the loop for sample i
SampleStep(acc, idx, a, b, i, pos, sc, sz) ==
    LET point == SamplePoint(a, b, i, sc, sz)
        dist == Dist2(point[1], point[2], pos[1], pos[2])
    IN IF dist < acc.min_dis
       THEN [min_dis |-> dist, closest |-> point, closest_idx |-> idx,
             slope |-> SlopeDefined(a, b, i)]
       ELSE acc

\* app.rs:263-280: for i in lo..hi, in order (the range is folded by halves,
\* the lower half first; a squared distance is never negative)
RECURSIVE SampleLoop(_, _, _, _, _, _, _, _, _)
SampleLoop(acc, idx, a, b, lo, hi, pos, sc, sz) ==
    IF lo >= hi \/ acc.min_dis < 0 THEN acc
    ELSE IF hi = lo + 1 THEN SampleStep(acc, idx, a, b, lo, pos, sc, sz)
    ELSE LET mid == (lo + hi) \div 2
         IN SampleLoop(SampleLoop(acc, idx, a, b, lo, mid, pos, sc, sz),
                       idx, a, b, mid, hi, pos, sc, sz)

\* app.rs:250-283: windows(2).enumerate(), from segment idx on
RECURSIVE SegmentLoop(_, _, _, _, _, _, _)
SegmentLoop(acc, idx, pts, an, pos, sc, sz) ==
    IF idx + 2 > Len(pts) THEN acc
    ELSE SegmentLoop(
            SampleLoop(acc, idx, pts[idx + 1], pts[idx + 2], 1,
                       DrawSteps(an, pts[idx + 2]), pos, sc, sz),
            idx + 1, pts, an, pos, sc, sz)

\* app.rs:246-283: the closest revealed sample, searched in Insert mode while
\* the pointer hovers the canvas
CurveHit(pts, an, mode, hover, sc, sz) ==
    IF Len(pts) >= 2 /\ mode = "Insert" /\ hover # NoPos
    THEN SegmentLoop(NoClosest, 0, pts, an, hover, sc, sz)
    ELSE NoClosest

\* --------------------------------------------------------- point hit-test
\* BezPoint::draw(..., hover) returns the point when the pointer is within
\* its hit radius (spec 4.3); with hover None it returns nothing.
DrawHit(p, hover, sc, sz) ==
    /\ hover # NoPos
    /\ Dist2(ToScreen(p.x, RectMin[1], sc, sz), ToScreen(p.y, RectMin[2], sc, sz),
             hover[1], hover[2]) <= HitRadius * HitRadius

\* Variant: a later match replaces an earlier one (no short-circuit).
RECURSIVE HitLoop_Last(_, _, _, _, _, _)
HitLoop_Last(acc, i, pts, hover, sc, sz) ==
    IF i >= Len(pts) THEN acc
    ELSE LET res == DrawHit(pts[i + 1], hover, sc, sz)
             idx == IF res THEN i ELSE acc.idx
             sel == IF res THEN pts[i + 1].id ELSE acc.selected
         IN HitLoop_Last([selected |-> sel, idx |-> idx], i + 1, pts, hover, sc, sz)

\* app.rs:285-310: the loop over the points, from index i on (0-based);
\* acc.selected is the id of the point hit (0: None), acc.idx its index (-1: None)
RECURSIVE HitLoop(_, _, _, _, _, _)
HitLoop(acc, i, pts, hover, sc, sz) ==
    IF i >= Len(pts) THEN acc
    ELSE LET res == DrawHit(pts[i + 1], IF acc.selected = 0 THEN hover ELSE NoPos, sc, sz)
             idx == IF acc.idx # -1 THEN acc.idx ELSE IF res THEN i ELSE -1
             sel == IF acc.selected # 0 THEN acc.selected
                    ELSE IF res THEN pts[i + 1].id ELSE 0
         IN HitLoop([selected |-> sel, idx |-> idx], i + 1, pts, hover, sc, sz)

\* Variant: the index of the hit counts the points from one.
PointHit_OneBased(pts, hover, sc, sz) ==
    LET hit == HitLoop([selected |-> 0, idx |-> -1], 0, pts, hover, sc, sz)
    IN IF hit.idx = -1 THEN hit ELSE [hit EXCEPT !.idx = hit.idx + 1]

\* app.rs:284-310
PointHit(pts, hover, sc, sz) == HitLoop([selected |-> 0, idx |-> -1], 0, pts, hover, sc, sz)

\* ------------------------------------------------------ the input snapshot
\* resp.hover_pos(): the pointer position while it hovers the canvas
HoverPos(inp) == IF inp.pos \in HoverSpots THEN inp.pos ELSE NoPos

\* resp.contains_pointer()
ContainsPointer(inp) == inp.pos \in HoverSpots

\* i.pointer.button_down(Primary): the button's state after the frame's events
ButtonDown(h, inp) == (h /\ inp.ev = "none") \/ inp.ev = "press"

\* i.pointer.button_released(Primary): a release event in this frame
ButtonReleased(inp) == inp.ev \in {"release", "tap"}

\* ----------------------------------------------------------- the top panel
\* Variant: activating a mode always selects it (no way back to Default).
Toggle_Momentary(cur, mode) == mode

\* app.rs:161-165 and 170-174
Toggle(cur, mode) == IF cur # mode THEN mode ELSE "Default"

\* app.rs:152-177: one turn of the loop, the label's click and then the key
ModeStep(cur, mode, inp) ==
    LET afterLabel == IF inp.label = mode THEN Toggle(cur, mode) ELSE cur
    IN IF mode \in inp.keys THEN Toggle(afterLabel, mode) ELSE afterLabel

RECURSIVE ModeLoop(_, _, _)
ModeLoop(cur, k, inp) ==
    IF k > Len(ModeOrder) THEN cur
    ELSE ModeLoop(ModeStep(cur, ModeOrder[k], inp), k + 1, inp)

\* app.rs:145-186: the mode after the top panel (labels, keys, Generate)
PanelMode(cur, inp) == IF inp.generate THEN "Default" ELSE ModeLoop(cur, 1, inp)

\* Variant: the Field Size DragValue is always enabled.
PanelSize_Enabled(sz, pts, inp) == IF inp.size # 0 THEN inp.size ELSE sz

\* app.rs:132-134: the Field Size DragValue is enabled while the path is empty
PanelSize(sz, pts, inp) == IF inp.size # 0 /\ pts = <<>> THEN inp.size ELSE sz

\* app.rs:138-142
PanelScale(sc, inp) == IF inp.scale # 0 THEN inp.scale ELSE sc

\* ------------------------------------------------- the points as objects
\* A frame works on st: the fields of PathyApp, the Point `selected`
\* references when the path no longer holds it, and egui's animation values.
AnchorOf(p) == [x |-> p.x, y |-> p.y, locked |-> p.locked, live |-> TRUE]

\* The path becomes pts: a point that leaves the path lives on as long as
\* `selected` references it (Rc).
WithPoints(st, pts) ==
    IF st.selected # 0 /\ st.selected \in IdsOf(st.points) /\ st.selected \notin IdsOf(pts)
    THEN LET i == CHOOSE j \in 1 .. Len(st.points) : st.points[j].id = st.selected
         IN [st EXCEPT !.points = pts, !.detached = AnchorOf(st.points[i])]
    ELSE [st EXCEPT !.points = pts]

\* point.borrow_mut().locked = val, on the Point with identity id
SetLocked(st, id, val) ==
    IF id \in IdsOf(st.points)
    THEN [st EXCEPT !.points = [i \in 1 .. Len(st.points) |->
              IF st.points[i].id = id THEN [st.points[i] EXCEPT !.locked = val]
              ELSE st.points[i]]]
    ELSE [st EXCEPT !.detached.locked = val]

\* p.x = x; p.y = y, on the Point with identity id
SetXY(st, id, x, y) ==
    IF id \in IdsOf(st.points)
    THEN [st EXCEPT !.points = [i \in 1 .. Len(st.points) |->
              IF st.points[i].id = id THEN [st.points[i] EXCEPT !.x = x, !.y = y]
              ELSE st.points[i]]]
    ELSE [st EXCEPT !.detached.x = x, !.detached.y = y]

\* app.rs:125-200 and 212-220: the top panel, then the dropped image
PanelStep(st, inp) ==
    LET st1 == [st EXCEPT !.size = PanelSize(st.size, st.points, inp),
                          !.scale = PanelScale(st.scale, inp),
                          !.cursor_mode = PanelMode(st.cursor_mode, inp),
                          !.overlay = IF inp.drop = "ok" THEN TRUE ELSE st.overlay]
    IN IF inp.clear THEN WithPoints(st1, <<>>) ELSE st1

\* Variant: the lock is taken without looking whether one is held already.
LockStep_NoGuard(st, down, hit) ==
    IF down /\ st.cursor_mode \notin {"Delete", "Trim"} /\ hit.selected # 0
    THEN [SetLocked(st, hit.selected, TRUE) EXCEPT !.selected = hit.selected]
    ELSE st

\* app.rs:313-323: lock the point under the pointer while the button is down
LockStep(st, down, hit) ==
    IF down /\ st.cursor_mode \notin {"Delete", "Trim"} /\ st.selected = 0 /\ hit.selected # 0
    THEN [SetLocked(st, hit.selected, TRUE) EXCEPT !.selected = hit.selected]
    ELSE st

\* Variant: the release is guarded by the mode, as the lock is.
ReleaseStep_Guarded(st, released) ==
    IF released /\ st.cursor_mode \notin {"Delete", "Trim"} /\ st.selected # 0
    THEN [SetLocked(st, st.selected, FALSE) EXCEPT !.selected = 0, !.detached = NoPoint]
    ELSE st

\* app.rs:324-330: unlock on release
ReleaseStep(st, released) ==
    IF released /\ st.selected # 0
    THEN [SetLocked(st, st.selected, FALSE) EXCEPT !.selected = 0, !.detached = NoPoint]
    ELSE st

\* ---------------------------------------------------------- click dispatch
\* What the dispatch leaves: the frame state, the edit it made ("none",
\* "append", "insert", "remove", "truncate") and its index, and the early
\* return it took ("none", "hit", "oob").
Outcome(st, edit, at, returned) == [st |-> st, edit |-> edit, at |-> at, returned |-> returned]

\* Variant: the join takes the previous point's cp1 instead of its cp2.
CreatePoint_Cp1(st, x, y) ==
    LET id == FreshId
    IN IF st.points = <<>>
       THEN [st EXCEPT !.points =
                Push(st.points, BezPointNew(id, x, y, x - HandleOffset, y, x + HandleOffset, y))]
       ELSE LET prev == st.points[Len(st.points)]
                ix == Lerp(prev.c1x, x)
                iy == Lerp(prev.c1y, y)
            IN [st EXCEPT
                 !.points = Push(st.points,
                                 BezPointNew(id, x, y, ix, iy, 2 * x - ix, 2 * y - iy)),
                 !.anim = [st.anim EXCEPT ![id] = AnimateValue(st.anim[id], 0).entry]]

\* app.rs:350-371: append the point created at field position (x, y)
CreatePoint(st, x, y) ==
    LET id == FreshId
    IN IF st.points = <<>>
       THEN [st EXCEPT !.points =
                Push(st.points, BezPointNew(id, x, y, x - HandleOffset, y, x + HandleOffset, y))]
       ELSE LET prev == st.points[Len(st.points)]
                ix == Lerp(prev.c2x, x)
                iy == Lerp(prev.c2y, y)
            IN [st EXCEPT
                 !.points = Push(st.points,
                                 BezPointNew(id, x, y, ix, iy, 2 * x - ix, 2 * y - iy)),
                 !.anim = [st.anim EXCEPT ![id] = AnimateValue(st.anim[id], 0).entry]]

\* Variant: a click on a point creates another point on top of it.
CreateClick_NoHitCheck(st, inp, hit) ==
    IF HoverPos(inp) = NoPos THEN Outcome(st, "none", 0, "none")
    ELSE IF OutOfBounds(HoverPos(inp), st.scale) THEN Outcome(st, "none", 0, "oob")
    ELSE Outcome(CreatePoint(st, ToField(HoverPos(inp)[1], RectMin[1], st.scale, st.size),
                                 ToField(HoverPos(inp)[2], RectMin[2], st.scale, st.size)),
                 "append", Len(st.points), "none")

\* app.rs:333-373
CreateClick(st, inp, hit) ==
    IF hit.selected # 0 THEN Outcome(st, "none", 0, "hit")
    ELSE IF HoverPos(inp) = NoPos THEN Outcome(st, "none", 0, "none")
    ELSE IF OutOfBounds(HoverPos(inp), st.scale) THEN Outcome(st, "none", 0, "oob")
    ELSE Outcome(CreatePoint(st, ToField(HoverPos(inp)[1], RectMin[1], st.scale, st.size),
                                 ToField(HoverPos(inp)[2], RectMin[2], st.scale, st.size)),
                 "append", Len(st.points), "none")

\* Variant: Delete cuts the path at the hit point, as Trim does.
DeleteClick_Cuts(st, hit) ==
    IF hit.idx # -1
    THEN Outcome(WithPoints(st, Truncate(st.points, hit.idx)), "remove", hit.idx, "none")
    ELSE Outcome(st, "none", 0, "none")

\* app.rs:374-378
DeleteClick(st, hit) ==
    IF hit.idx # -1
    THEN Outcome(WithPoints(st, RemoveAt(st.points, hit.idx)), "remove", hit.idx, "none")
    ELSE Outcome(st, "none", 0, "none")

\* Variant: Trim keeps the hit point.
TrimClick_Inclusive(st, hit) ==
    IF hit.idx # -1
    THEN Outcome(WithPoints(st, Truncate(st.points, hit.idx + 1)), "truncate", hit.idx, "none")
    ELSE Outcome(st, "none", 0, "none")

\* app.rs:379-383
TrimClick(st, hit) ==
    IF hit.idx # -1
    THEN Outcome(WithPoints(st, Truncate(st.points, hit.idx)), "truncate", hit.idx, "none")
    ELSE Outcome(st, "none", 0, "none")

\* Variant: the new point goes before the segment's lower point.
InsertClick_Before(st, curve) ==
    IF curve.closest # NoPos /\ curve.slope
    THEN LET x == ToField(curve.closest[1], RectMin[1], st.scale, st.size)
             y == ToField(curve.closest[2], RectMin[2], st.scale, st.size)
             lower == st.points[curve.closest_idx + 1]
             ix == Lerp(lower.c2x, x)
             iy == Lerp(lower.c2y, y)
             id == FreshId
         IN Outcome([st EXCEPT !.points =
                        InsertAt(st.points, curve.closest_idx,
                                 BezPointNew(id, x, y, ix, iy, 2 * x - ix, 2 * y - iy))],
                    "insert", curve.closest_idx, "none")
    ELSE Outcome(st, "none", 0, "none")

\* app.rs:384-397
InsertClick(st, curve) ==
    IF curve.closest # NoPos /\ curve.slope
    THEN LET x == ToField(curve.closest[1], RectMin[1], st.scale, st.size)
             y == ToField(curve.closest[2], RectMin[2], st.scale, st.size)
             lower == st.points[curve.closest_idx + 1]
             ix == Lerp(lower.c2x, x)
             iy == Lerp(lower.c2y, y)
             id == FreshId
         IN Outcome([st EXCEPT !.points =
                        InsertAt(st.points, curve.closest_idx + 1,
                                 BezPointNew(id, x, y, ix, iy, 2 * x - ix, 2 * y - iy))],
                    "insert", curve.closest_idx + 1, "none")
    ELSE Outcome(st, "none", 0, "none")

\* Variant: a click in Default mode creates a point, as in Create mode.
ClickStep_DefaultCreates(st, inp, hit, curve) ==
    IF ~inp.clicked THEN Outcome(st, "none", 0, "none")
    ELSE IF st.cursor_mode = "Delete" THEN DeleteClick(st, hit)
    ELSE IF st.cursor_mode = "Trim" THEN TrimClick(st, hit)
    ELSE IF st.cursor_mode = "Insert" THEN InsertClick(st, curve)
    ELSE CreateClick(st, inp, hit)

\* app.rs:331-400
ClickStep(st, inp, hit, curve) ==
    IF ~inp.clicked THEN Outcome(st, "none", 0, "none")
    ELSE IF st.cursor_mode = "Create" THEN CreateClick(st, inp, hit)
    ELSE IF st.cursor_mode = "Delete" THEN DeleteClick(st, hit)
    ELSE IF st.cursor_mode = "Trim" THEN TrimClick(st, hit)
    ELSE IF st.cursor_mode = "Insert" THEN InsertClick(st, curve)
    ELSE Outcome(st, "none", 0, "none")

\* app.rs:402-413: the drag update is applied
DragApplies(st, inp) ==
    inp.dragged /\ ContainsPointer(inp) /\ st.selected # 0 /\ inp.pos # NoPos

\* app.rs:402-413
DragStep(st, inp) ==
    IF DragApplies(st, inp)
    THEN SetXY(st, st.selected,
               ToField(inp.pos[1], RectMin[1], st.scale, st.size),
               ToField(inp.pos[2], RectMin[2], st.scale, st.size))
    ELSE st

\* ------------------------------------------------------------- the frame
\* The state a frame starts from.
FrameState ==
    [size |-> size, scale |-> scale, cursor_mode |-> cursor_mode, overlay |-> overlay,
     points |-> points, selected |-> selected, detached |-> detached, anim |-> anim]

\* app.rs:246-310 on the state the top panel left: the two hit-tests
CurveOf(st, inp) ==
    CurveHit(st.points, st.anim, st.cursor_mode, HoverPos(inp), st.scale, st.size)

HitOf(st, inp) == PointHit(st.points, HoverPos(inp), st.scale, st.size)

\* The end of a frame: the points of the path are named by their position
\* again and the point only `selected` holds is HeldId; the animation values
\* follow their points, those of the points that are gone are gone with them
\* (an identity is never used again).
Settle(st) ==
    [st EXCEPT
      !.points = [i \in 1 .. Len(st.points) |-> [st.points[i] EXCEPT !.id = i]],
      !.selected = IF st.selected = 0 THEN 0
                   ELSE IF st.selected \in IdsOf(st.points)
                        THEN CHOOSE i \in 1 .. Len(st.points) : st.points[i].id = st.selected
                        ELSE HeldId,
      !.anim = [k \in Ids |-> IF k \in 1 .. Len(st.points)
                              THEN st.anim[st.points[k].id] ELSE NoAnim]]

\* The mode the frame activates, when it activates exactly one
Toggled(inp) ==
    LET acts == Cardinality(inp.keys) + (IF inp.label = "none" THEN 0 ELSE 1)
    IN IF acts # 1 \/ inp.generate THEN "none"
       ELSE IF inp.label # "none" THEN inp.label
       ELSE CHOOSE m \in inp.keys : TRUE

\* PathyApp::update  (app.rs:121-441)
UpdateResult(st0, h, inp) ==
    LET st1 == PanelStep(st0, inp)
        curve == CurveOf(st1, inp)
        hit == HitOf(st1, inp)
        st2 == [st1 EXCEPT !.anim = AnimAfterDraw(st1.anim, st1.points)]
        st3 == LockStep(st2, ButtonDown(h, inp), hit)
        st4 == ReleaseStep(st3, ButtonReleased(inp))
        out == ClickStep(st4, inp, hit, curve)
        st5 == IF out.returned # "none" THEN out.st ELSE DragStep(out.st, inp)
    IN [st |-> Settle(st5),
        last |-> [op |-> "update", edit |-> out.edit, at |-> out.at,
                  cleared |-> inp.clear,
                  dragged |-> (out.returned = "none" /\ DragApplies(out.st, inp)),
                  released |-> ButtonReleased(inp) /\ st3.selected # 0,
                  returned |-> out.returned,
                  toggled |-> Toggled(inp), clicked |-> inp.clicked]]

\* ------------------------------------------------------------ the inputs
\* A frame in which nothing happens but the pointer being at pos.
Still(pos) ==
    [kind |-> "frame", size |-> 0, scale |-> 0, label |-> "none", keys |-> {},
     generate |-> FALSE, clear |-> FALSE, drop |-> "none",
     pos |-> pos, ev |-> "none", clicked |-> FALSE, dragged |-> FALSE]

\* Where the pointer is when it is anywhere: over the canvas or over the panel.
Spots == HoverSpots \cup {FarSpot}

\* Pointer frames while the button is up: the pointer moves or the button
\* goes down.
UpInputs ==
    { Still(FarSpot) }
    \cup { [Still(pos) EXCEPT !.ev = "press"] : pos \in Spots }

\* A hold of the button that drags the canvas, the pointer inside it or
\* dragged out of it.
Drags == { [Still(pos) EXCEPT !.dragged = TRUE] : pos \in InsideSpots \cup {FarSpot} }

\* A release of the button that clicks the canvas: the pointer is over the
\* canvas, or gone with the finger that tapped it.
Clicks ==
    { [Still(pos) EXCEPT !.ev = "release", !.clicked = TRUE] : pos \in HoverSpots \cup {NoPos} }

\* Pointer frames while the button is down: the hold goes on, with the canvas
\* dragged or not, or the button is released, with the canvas clicked or not.
DownInputs ==
    { Still(pos) : pos \in Spots }
    \cup Drags
    \cup { [Still(FarSpot) EXCEPT !.ev = "release"] }
    \cup Clicks

PointerInputs(h) == IF h THEN DownInputs ELSE UpInputs

\* The sets of mode keys pressed in one frame.
KeySets == { ks \in SUBSET {ModeOrder[k] : k \in 1 .. Len(ModeOrder)} :
               Cardinality(ks) >= 1 /\ Cardinality(ks) <= MaxKeys }

\* The frames a key press or an activation from the keyboard falls in: the
\* pointer rests over the panel, or it drags or clicks the canvas.
KeyboardFrames(h) ==
    {Still(FarSpot)}
    \cup (IF h THEN {p \in Drags \cup Clicks : p.pos \in InsideSpots} ELSE {})

\* Key frames: mode keys pressed.
KeyInputs(h) == { [p EXCEPT !.keys = ks] : <<p, ks>> \in KeyboardFrames(h) \X KeySets }

\* The release that clicks a widget of the top panel.
PanelClick == [Still(FarSpot) EXCEPT !.ev = "release"]

\* Panel frames: a label, Generate or Clear clicked with the pointer; Clear
\* activated from the keyboard; the Field Size DragValue edited.
PanelInputs(h) ==
    (IF h
     THEN { [PanelClick EXCEPT !.label = m] : m \in Modes \ {"Default"} }
          \cup { [PanelClick EXCEPT !.generate = TRUE], [PanelClick EXCEPT !.clear = TRUE] }
     ELSE {})
    \cup { [p EXCEPT !.clear = TRUE] : p \in KeyboardFrames(h) }
    \cup { [Still(FarSpot) EXCEPT !.size = v] : v \in SizeValues }

\* The frames of an editing session.
Inputs(h) == PointerInputs(h) \cup KeyInputs(h) \cup PanelInputs(h)

\* The frames of a session that also edits the Field Scale DragValue and
\* drops images (decoded or not); it drags nothing and uses the keyboard
\* while the pointer rests.
SettingsInputs(h) ==
    { p \in Inputs(h) : ~p.dragged /\ (p.keys # {} => ~p.clicked) /\ (p.clear => ~p.clicked) }
    \cup { [Still(FarSpot) EXCEPT !.scale = v] : v \in ScaleValues }
    \cup { [Still(FarSpot) EXCEPT !.drop = d] : d \in {"ok", "bad"} }

\* The frame could build one point, or apply one drag update, more than the
\* model follows.
TooMany(inp) ==
    \/ /\ inp.clicked
       /\ PanelMode(cursor_mode, inp) \in {"Create", "Insert"}
       /\ created >= MaxCreated
    \/ inp.dragged /\ moved >= MaxMoves

\* The frames of a session worked with the pointer and the mode keys alone,
\* the Field Size DragValue set before.
PlainInputs(h) ==
    PointerInputs(h)
    \cup { [Still(FarSpot) EXCEPT !.keys = {ModeOrder[k]}] : k \in 1 .. Len(ModeOrder) }
    \cup { [Still(FarSpot) EXCEPT !.size = v] : v \in SizeValues }

\* The frame could apply one drag update more than the model follows.
TooManyMoves(inp) == inp.dragged /\ moved >= MaxMoves

\* ------------------------------------------------------------ persistence
\* serde of BezPoint: the six coordinates (spec 6)
SerBezPoint(p) == <<p.x, p.y, p.c1x, p.c1y, p.c2x, p.c2y>>

DeBezPoint(id, c) == BezPointNew(id, c[1], c[2], c[3], c[4], c[5], c[6])

\* Variant: the scale is skipped with the transient fields.
Serialize_SkipScale(st) ==
    [kind |-> "record", size |-> st.size, scale |-> DefaultScale,
     points |-> [i \in 1 .. Len(st.points) |-> SerBezPoint(st.points[i])]]

\* #[derive(Serialize)] on PathyApp  (app.rs:46-64): size, scale and points;
\* cursor_mode, overlay and selected are #[serde(skip)]
Serialize(st) ==
    [kind |-> "record", size |-> st.size, scale |-> st.scale,
     points |-> [i \in 1 .. Len(st.points) |-> SerBezPoint(st.points[i])]]

\* #[derive(Deserialize)] with #[serde(default)]  (app.rs:46-78): a skipped
\* field takes the value Default::default() gives it
Deserialize(rec) ==
    [size |-> rec.size, scale |-> rec.scale,
     cursor_mode |-> "Default", overlay |-> FALSE,
     points |-> [i \in 1 .. Len(rec.points) |-> DeBezPoint(i, rec.points[i])],
     selected |-> 0, detached |-> NoPoint,
     anim |-> [k \in Ids |-> NoAnim]]

\* --------------------------------------------------------------- actions
\* After PathyApp::new (app.rs:82-111) without a persisted record: Default.
Init ==
    /\ size = DefaultSize
    /\ scale = DefaultScale
    /\ cursor_mode = "Default"
    /\ overlay = FALSE
    /\ points = <<>>
    /\ selected = 0
    /\ detached = NoPoint
    /\ anim = [k \in Ids |-> NoAnim]
    /\ held = FALSE
    /\ input = NoInput
    /\ running = TRUE
    /\ storage = NoRecord
    /\ created = 0
    /\ moved = 0
    /\ pressed = 0
    /\ last = Quiet

\* eframe takes the frame's input snapshot, one of `frames`, and is about to
\* call update.
DeliverFrom(frames) ==
    /\ running
    /\ input = NoInput
    /\ \E inp \in frames :
         /\ ~TooMany(inp)
         /\ input' = inp
    /\ last' = Quiet
    /\ UNCHANGED <<size, scale, cursor_mode, overlay, points, selected, detached,
                   anim, held, running, storage, created, moved, pressed>>

Deliver == DeliverFrom(Inputs(held))

DeliverSettings == DeliverFrom(SettingsInputs(held))

\* The same for a session worked with the pointer and the mode keys: every
\* click is delivered, Update follows those that build no point too many.
DeliverPlain ==
    /\ running
    /\ input = NoInput
    /\ \E inp \in PlainInputs(held) :
         /\ ~TooManyMoves(inp)
         /\ input' = inp
    /\ last' = Quiet
    /\ UNCHANGED <<size, scale, cursor_mode, overlay, points, selected, detached,
                   anim, held, running, storage, created, moved, pressed>>

\* The point the hit-test found under the pointer in the frame the button
\* went down (app.rs:284-312), for as long as the button stays down; a point
\* Clear takes out of the path is followed only while `selected` holds it.
PressedAfter(p, h, inp, st) ==
    IF ~ButtonDown(h, inp) THEN 0
    ELSE IF ~h THEN HitOf(PanelStep(FrameState, inp), inp).selected
    ELSE IF inp.clear THEN (IF p # 0 /\ p = selected /\ st.selected = HeldId THEN HeldId ELSE 0)
    ELSE p

\* PathyApp::update  (app.rs:121-441)
Update ==
    /\ running
    /\ input # NoInput
    /\ \E r \in {UpdateResult(FrameState, held, input)} :
          /\ size' = r.st.size
          /\ scale' = r.st.scale
          /\ cursor_mode' = r.st.cursor_mode
          /\ overlay' = r.st.overlay
          /\ points' = r.st.points
          /\ selected' = r.st.selected
          /\ detached' = r.st.detached
          /\ anim' = r.st.anim
          /\ last' = r.last
          /\ r.last.edit \in {"append", "insert"} => created < MaxCreated
          /\ created' = IF r.last.edit \in {"append", "insert"} THEN created + 1 ELSE created
          /\ moved' = IF r.last.dragged THEN moved + 1 ELSE moved
          /\ pressed' = PressedAfter(pressed, held, input, r.st)
    /\ held' = ButtonDown(held, input)
    /\ input' = NoInput
    /\ UNCHANGED <<running, storage>>

\* PathyApp::save  (app.rs:116-118), called before shutdown
Save ==
    /\ running
    /\ input = NoInput
    /\ storage' = Serialize(FrameState)
    /\ running' = FALSE
    /\ last' = [Quiet EXCEPT !.op = "save"]
    /\ UNCHANGED <<size, scale, cursor_mode, overlay, points, selected, detached,
                   anim, held, input, created, moved, pressed>>

\* PathyApp::new  (app.rs:82-111) at the next launch: the record is read once
\* (the launch after that reads what the shutdown before it saves)
New ==
    /\ ~running
    /\ \E st \in {Deserialize(storage)} :
          /\ size' = st.size
          /\ scale' = st.scale
          /\ cursor_mode' = st.cursor_mode
          /\ overlay' = st.overlay
          /\ points' = st.points
          /\ selected' = st.selected
          /\ detached' = st.detached
          /\ anim' = st.anim
    /\ held' = FALSE
    /\ pressed' = 0
    /\ running' = TRUE
    /\ storage' = NoRecord
    /\ last' = [Quiet EXCEPT !.op = "new"]
    /\ UNCHANGED <<input, created, moved>>

Next == Deliver \/ Update \/ Save \/ New

Spec == Init /\ [][Next]_vars

NextSettings == DeliverSettings \/ Update \/ Save \/ New

SpecSettings == Init /\ [][NextSettings]_vars

NextPlain == DeliverPlain \/ Update \/ Save \/ New

SpecPlain == Init /\ [][NextPlain]_vars

TypeOK ==
    /\ size \in SizeValues
    /\ scale \in ScaleValues
    /\ cursor_mode \in Modes
    /\ Len(points) <= MaxCreated
    /\ selected \in {0} \cup Ids
    /\ pressed \in {0} \cup Ids

\* ================================================================ claims
\* A frame is about to be handled: update runs on `input` in the next step.
Pending == running /\ input # NoInput

\* The state the top panel leaves to the canvas code of the pending frame.
AfterPanel == PanelStep(FrameState, input)

\* The point hit-test and the curve hit-test of the pending frame.
FrameHit == HitOf(AfterPanel, input)
FrameCurve == CurveOf(AfterPanel, input)

\* The pending frame clicks the canvas in mode m.
ClickIn(m) == Pending /\ input.clicked /\ AfterPanel.cursor_mode = m

\* No Point carries the lock flag.
NoneLocked ==
    /\ \A i \in 1 .. Len(points) : ~points[i].locked
    /\ ~detached.locked

\* ---------------------------------------------------------------- C1
\* C1: activating a mode (its key or its label) when another mode is current
\* makes it the current mode, activating the current mode returns to Default;
\* the current mode is always one of the five.
C1_ModeToggle ==
    /\ [](cursor_mode \in Modes)
    /\ [][(Pending /\ Toggled(input) # "none")
            => cursor_mode' = (IF cursor_mode = Toggled(input)
                               THEN "Default" ELSE Toggled(input))]_vars

\* A frame that activated Create while Create was current.
C1_Witness == last.toggled = "Create" /\ cursor_mode = "Default"

\* ---------------------------------------------------------------- C2
\* C2: in every state at most one Point is locked, and a locked Point is the
\* one `selected` references.
C2_OneLock ==
    /\ Cardinality({i \in 1 .. Len(points) : points[i].locked})
         + (IF detached.locked THEN 1 ELSE 0) <= 1
    /\ \A i \in 1 .. Len(points) : points[i].locked => selected = points[i].id
    /\ detached.locked => selected = HeldId
    /\ selected = HeldId <=> detached.live

\* A point of a longer path is locked.
C2_Witness == Len(points) >= 2 /\ \E i \in 1 .. Len(points) : points[i].locked

\* ---------------------------------------------------------------- C3
\* The coordinates Create gives the point it appends to a path with
\* coordinates pre, at field position (ax, ay).
C3_Appended(pre, ax, ay) ==
    IF pre = <<>>
    THEN <<ax, ay, ax - 10, ay, ax + 10, ay>>
    ELSE LET c1x == Lerp(pre[Len(pre)][5], ax)
             c1y == Lerp(pre[Len(pre)][6], ay)
         IN <<ax, ay, c1x, c1y, 2 * ax - c1x, 2 * ay - c1y>>

\* C3: an accepted Create click (pointer over the field, no point hit) appends
\* exactly one point, its anchor at the pointer's field position (the point is
\* drawn under the pointer), its handles by the first-point rule or the
\* smooth-join rule; the earlier points are unchanged.
C3_CreateAppends ==
    [][(ClickIn("Create") /\ HoverPos(input) # NoPos /\ FrameHit.selected = 0
          /\ ~OutOfBounds(HoverPos(input), AfterPanel.scale))
        => LET pre == Coords(AfterPanel.points)
               new == points'[Len(points')]
           IN /\ Len(points') = Len(pre) + 1
              /\ SubSeq(Coords(points'), 1, Len(pre)) = pre
              /\ ToScreen(new.x, RectMin[1], scale', size') = input.pos[1]
              /\ ToScreen(new.y, RectMin[2], scale', size') = input.pos[2]
              /\ Coords(points')[Len(pre) + 1] = C3_Appended(pre, new.x, new.y)]_vars

\* A Create click appended a point to a path that was not empty.
C3_Witness == last.edit = "append" /\ Len(points) >= 2 /\ size # scale

\* ---------------------------------------------------------------- C4
\* C4: a Create click leaves the path as it is when the point hit-test hit a
\* point, or the pointer is not over the field rectangle.
C4_CreateIgnored ==
    [][(ClickIn("Create")
          /\ (\/ FrameHit.selected # 0
              \/ HoverPos(input) = NoPos
              \/ OutOfBounds(HoverPos(input), AfterPanel.scale)))
        => Coords(points') = Coords(AfterPanel.points)]_vars

\* A Create click on a point returned early.
C4_Witness == last.clicked /\ last.returned = "hit" /\ cursor_mode = "Create"

C6_DeleteShifts ==
    [][(ClickIn("Delete") /\ FrameHit.idx # -1)
        => LET pre == Coords(AfterPanel.points)
               i == FrameHit.idx
           IN /\ i < Len(pre)
              /\ Len(points') = Len(pre) - 1
              /\ \A j \in 0 .. Len(pre) - 1 :
                    /\ j < i => Coords(points')[j + 1] = pre[j + 1]
                    /\ j > i => Coords(points')[j] = pre[j + 1]]_vars

\* A Delete click removed the first point of a path of three.
C6_Witness == last.edit = "remove" /\ last.at = 0 /\ Len(points) = 2

\* ---------------------------------------------------------------- C7
\* C7: a Trim click that hit the point at index i leaves exactly the points
\* 0 .. i-1, as they were: the hit point and all after it are gone.
C7_TrimKeepsPrefix ==
    [][(ClickIn("Trim") /\ FrameHit.idx # -1)
        => LET pre == Coords(AfterPanel.points)
               i == FrameHit.idx
           IN /\ Len(points') = i
              /\ Coords(points') = SubSeq(pre, 1, i)]_vars

\* A Trim click on the second point left the first one.
C7_Witness == last.edit = "truncate" /\ last.at = 1 /\ Len(points) = 1

\* ---------------------------------------------------------------- C8
\* C8: a click leaves the path as it is in Default mode, in Delete and Trim
\* when the point hit-test matched nothing, and in Insert when the curve
\* hit-test has no result (no closest sample, or none with a slope).
C8_ClickNoOp ==
    [][(\/ ClickIn("Default")
        \/ (ClickIn("Delete") \/ ClickIn("Trim")) /\ FrameHit.idx = -1
        \/ ClickIn("Insert") /\ ~(FrameCurve.closest # NoPos /\ FrameCurve.slope))
        => Coords(points') = Coords(AfterPanel.points)]_vars

\* A Delete click beside the points of a path.
C8_Witness ==
    /\ last.clicked /\ last.edit = "none" /\ ~last.cleared
    /\ cursor_mode = "Delete" /\ Len(points) >= 2

\* ---------------------------------------------------------------- C9
\* C9: the state a restart loads has the size, the scale and the point
\* coordinates the application had when it was saved, and Default mode, no
\* selection, no locked point and no background image, whatever these were.
C9_RoundTrip ==
    [][(~running /\ running')
        => /\ size' = size
           /\ scale' = scale
           /\ Coords(points') = Coords(points)
           /\ cursor_mode' = "Default"
           /\ selected' = 0
           /\ NoneLocked'
           /\ ~overlay']_vars

\* Saved with a changed scale and size, a mode, a lock and a background.
C9_Witness ==
    /\ ~running /\ storage # NoRecord
    /\ size # DefaultSize /\ scale # DefaultScale /\ Len(points) >= 2
    /\ cursor_mode = "Create" /\ selected # 0 /\ overlay

\* ---------------------------------------------------------------- C10
\* C10: a frame in which the primary button was released ends with no point
\* locked and nothing selected, in every mode.
C10_ReleaseUnlocks ==
    [][(Pending /\ ButtonReleased(input)) => (selected' = 0 /\ NoneLocked')]_vars

\* A lock was released in a frame that ends in Trim mode.
C10_Witness == last.released /\ cursor_mode = "Trim" /\ Len(points) >= 1

\* ---------------------------------------------------------------- C11
\* C11: in every state the locked point (the one `selected` references) is a
\* point of the current path: a step that takes it out of the path (Delete,
\* Trim, Clear) releases the lock.
C11_NoDanglingLock ==
    /\ selected # 0 => selected \in IdsOf(points)
    /\ ~detached.locked

\* ---------------------------------------------------------------- C12
\* C12: a frame whose mode is Delete or Trim acquires no lock and overwrites
\* no point's coordinates with the pointer position, also when a point locked
\* in another mode is still held.
C12_NoDragInDeleteTrim ==
    [][(Pending /\ AfterPanel.cursor_mode \in {"Delete", "Trim"})
        => /\ selected = 0 => selected' = 0
           /\ ~input.clicked => Coords(points') = Coords(AfterPanel.points)
           /\ (detached'.live /\ AfterPanel.detached.live)
                 => (detached'.x = AfterPanel.detached.x
                     /\ detached'.y = AfterPanel.detached.y)]_vars

\* ---------------------------------------------------------------- C13
\* C13: a locked point is the point that was under the pointer when the
\* button went down: no lock is taken on a point the pointer reaches later
\* in a hold that began elsewhere.
C13_LockFromPress == selected # 0 => selected = pressed

\* ---------------------------------------------------------------- C14
\* C14: a step that starts with a path that is not empty leaves the field
\* size as it is.
C14_SizeFrozen == [][points # <<>> => size' = size]_vars

\* The Field Size DragValue is edited to another value while there is a path.
C14_Witness == Pending /\ input.size \notin {0, size} /\ points # <<>>

\* ---------------------------------------------------------------- C15
\* The indices of the points of the pending frame whose hit region contains
\* the pointer.
C15_Under ==
    {i \in 0 .. Len(AfterPanel.points) - 1 :
        DrawHit(AfterPanel.points[i + 1], HoverPos(input), AfterPanel.scale, AfterPanel.size)}

\* C15: the point hit-test of a frame reports no point when no hit region
\* contains the pointer, and else the point of smallest index whose hit region
\* does; the index and the handle it reports are those of the same point.
C15_FirstHit ==
    Pending =>
        IF C15_Under = {}
        THEN FrameHit.idx = -1 /\ FrameHit.selected = 0
        ELSE /\ FrameHit.idx \in C15_Under
             /\ \A i \in C15_Under : FrameHit.idx <= i
             /\ FrameHit.selected = AfterPanel.points[FrameHit.idx + 1].id

\* The pointer is within the hit region of two points.
C15_Witness == Pending /\ Cardinality(C15_Under) >= 2

\* ---------------------------------------------------------------- C16
\* The revealed samples of the path of frame state st: <<segment, step>> with
\* 1 <= step < the segment's revealed count.
C16_Revealed(st) ==
    UNION { { <<j, t>> : t \in 1 .. DrawSteps(st.anim, st.points[j + 2]) - 1 } :
              j \in 0 .. Len(st.points) - 2 }

\* The screen position of sample jt and its squared distance to pos.
C16_At(st, jt) ==
    SamplePoint(st.points[jt[1] + 1], st.points[jt[1] + 2], jt[2], st.scale, st.size)

C16_Dist(st, jt, pos) ==
    LET p == C16_At(st, jt) IN Dist2(p[1], p[2], pos[1], pos[2])

\* r is the result the claim asks for: nothing outside Insert mode, without a
\* hover position or without revealed samples; else the first sample, in
\* segment-then-step order, of least squared distance to the pointer.
C16_IsClosest(st, pos, r) ==
    \E rev \in {C16_Revealed(st)} :
      IF st.cursor_mode # "Insert" \/ pos = NoPos \/ rev = {}
      THEN r.closest = NoPos
      ELSE \E jt \in {ku \in rev : ku[1] = r.closest_idx /\ C16_At(st, ku) = r.closest} :
              /\ jt[2] >= 1 /\ jt[2] < Steps
              /\ C16_Dist(st, jt, pos) = r.min_dis
              /\ \A ku \in rev :
                    IF ku[1] < jt[1] \/ (ku[1] = jt[1] /\ ku[2] < jt[2])
                    THEN C16_Dist(st, ku, pos) > r.min_dis
                    ELSE C16_Dist(st, ku, pos) >= r.min_dis

\* C16: the curve hit-test has a result only in Insert mode with the pointer
\* hovering the canvas, and its result is the first revealed sample (step 1 to
\* revealed count - 1 of a segment) of least squared distance to the pointer.
C16_ClosestSample ==
    Pending => \E st \in {AfterPanel} : C16_IsClosest(st, HoverPos(input), FrameCurve)

\* The hit-test runs on two segments, one of them revealed in part.
C16_Witness ==
    /\ Pending /\ cursor_mode = "Insert" /\ Toggled(input) = "none" /\ ~input.generate
    /\ HoverPos(input) # NoPos /\ Len(points) = 3 /\ ~input.clear
    /\ \E k \in 2 .. 3 : DrawSteps(anim, points[k]) = MidReveal
    /\ FrameCurve.closest # NoPos

\* ---------------------------------------------------------------- C17
\* The revealed samples of st that have a slope.
C17_WithSlope(st) ==
    {jt \in C16_Revealed(st) :
        SlopeDefined(st.points[jt[1] + 1], st.points[jt[1] + 2], jt[2])}

\* C17: an Insert click with the pointer over the canvas and at least one
\* revealed sample that has a slope inserts a point, after the segment's lower
\* point, at a sample that is closest to the pointer among those with a slope
\* (a sample without slope is skipped, it does not make the click do nothing).
C17_SlopeSkipped ==
    [][(ClickIn("Insert") /\ HoverPos(input) # NoPos)
        => \E st \in {AfterPanel} : \E ws \in {C17_WithSlope(st)} :
             ws # {} =>
               /\ Len(points') = Len(st.points) + 1
               /\ \E jt \in ws :
                    /\ \A ku \in ws : C16_Dist(st, jt, input.pos) <= C16_Dist(st, ku, input.pos)
                    /\ points'[jt[1] + 2].x
                         = ToField(C16_At(st, jt)[1], RectMin[1], st.scale, st.size)
                    /\ points'[jt[1] + 2].y
                         = ToField(C16_At(st, jt)[2], RectMin[2], st.scale, st.size)]_vars

\* ---------------------------------------------------------------- C18
\* C18: the reveal progress of every point stays within 0 .. 100, and a frame
\* that builds a point that is not the first of the path (Create or Insert)
\* leaves the progress keyed by the new point at 0: in the next frame the
\* segment ending at it has no revealed samples.
C18_RevealFromZero ==
    /\ [](\A k \in Ids : anim[k].v \in 0 .. Steps /\ anim[k].to \in 0 .. Steps)
    /\ [][(Pending /\ last'.edit \in {"append", "insert"} /\ last'.at >= 1)
            => DrawSteps(anim', points'[last'.at + 1]) = 0]_vars

\* The Clear button empties a path that has points  (app.rs:187-189).
C19_Clears == input.clear /\ ~input.generate /\ points # <<>>

\* C19: in any single frame at most one path mutation is applied: at most one
\* structural edit (append, insert, remove, truncate, clear) or one drag
\* update of a point of the path, never two of them together.
C19_OneMutation ==
    [][Pending
        => /\ ~(C19_Clears /\ last'.edit # "none")
           /\ ~(last'.edit # "none" /\ last'.dragged)
           /\ ~(C19_Clears /\ last'.dragged /\ points' # <<>>)]_vars

\* C20: every index a structural edit uses is in range for the path as it is
\* at the moment of the edit: Delete's remove(i) has i < length, Trim's
\* truncate(i) has i <= length, Insert's read of points[closest_idx] and its
\* insert at closest_idx + 1 have closest_idx + 1 < length + 1 with
\* length >= 2.
C20_IndexInRange ==
    /\ (ClickIn("Delete") /\ FrameHit.idx # -1)
          => (FrameHit.idx >= 0 /\ FrameHit.idx < Len(AfterPanel.points))
    /\ (ClickIn("Trim") /\ FrameHit.idx # -1)
          => (FrameHit.idx >= 0 /\ FrameHit.idx <= Len(AfterPanel.points))
    /\ ClickIn("Insert")
          => \E curve \in {FrameCurve} :
                (curve.closest # NoPos /\ curve.slope)
                   => /\ Len(AfterPanel.points) >= 2
                      /\ curve.closest_idx >= 0
                      /\ curve.closest_idx + 1 < Len(AfterPanel.points) + 1

\* A click in Delete mode on the last of three points.
C20_Witness ==
    /\ ClickIn("Delete")
    /\ Len(AfterPanel.points) = MaxCreated
    /\ FrameHit.idx = Len(AfterPanel.points) - 1

====
